---------------------------- MODULE Spec2Model ----------------------------
(***************************************************************************)
(* A model of the L7 proxy's connection engine: the connection registry    *)
(* (ConnManager), the HTTP and TLS front doors, the byte pump, the         *)
(* file-watcher sweep and the admission filter.                             *)
(*                                                                         *)
(* Every shared-memory operation of the code (sync.Map Load/Store/Delete,  *)
(* each atomic.Add, each socket Close/Write) is one step, so that the      *)
(* goroutines interleave as the Go scheduler lets them.                     *)
(***************************************************************************)
EXTENDS Integers, Sequences, FiniteSets, TLC

(***************************************************************************)
(* Bounds of the model.                                                    *)
(***************************************************************************)
\* number of connections the listeners accept (one handler goroutine each)
NumHandlers == 2

Handlers == 1..NumHandlers

(***************************************************************************)
(* Strings.  A Go string is modelled as the sequence of its characters, so *)
(* that strings.ToLower, strings.HasPrefix, fmt.Sprintf and "+" are        *)
(* computed and not assumed.                                                *)
(***************************************************************************)
UpperChars == <<"A","B","C","D","E","F","G","H","I","J","K","L","M",
                "N","O","P","Q","R","S","T","U","V","W","X","Y","Z">>
LowerChars == <<"a","b","c","d","e","f","g","h","i","j","k","l","m",
                "n","o","p","q","r","s","t","u","v","w","x","y","z">>
DigitChars == <<"0","1","2","3","4","5","6","7","8","9">>

EmptyStr == << >>

ToLowerChar(c) ==
    IF \E i \in 1..26 : UpperChars[i] = c
    THEN LowerChars[CHOOSE i \in 1..26 : UpperChars[i] = c]
    ELSE c

\* strings.ToLower
ToLower(s) == [i \in 1..Len(s) |-> ToLowerChar(s[i])]

\* strings.HasPrefix
HasPrefix(s, p) == Len(s) >= Len(p) /\ SubSeq(s, 1, Len(p)) = p

\* the %d verb of fmt.Sprintf for an unsigned number
RECURSIVE FormatUint(_)
FormatUint(n) ==
    IF n < 10 THEN << DigitChars[n + 1] >>
    ELSE FormatUint(n \div 10) \o << DigitChars[(n % 10) + 1] >>

ConnPrefix == <<"c","o","n","n","-">>
HttpsPrefix == <<"h","t","t","p","s">>
ProtoHTTP == <<"h","t","t","p">>
ProtoTermination ==
    <<"h","t","t","p","s","_","t","l","s","_",
      "t","e","r","m","i","n","a","t","i","o","n">>
ProtoPassthrough ==
    <<"h","t","t","p","s","_","t","l","s","_",
      "p","a","s","s","t","h","r","o","u","g","h">>

ExampleCom == <<"e","x","a","m","p","l","e",".","c","o","m">>
WwwGoogleCom == <<"w","w","w",".","g","o","o","g","l","e",".","c","o","m">>
EvilTest == <<"e","v","i","l",".","t","e","s","t">>
Port80 == <<":","8","0">>
Port443 == <<":","4","4","3">>
\* main.go: haproxyAddr := "127.0.0.1:8443"
HAProxyAddress == <<"1","2","7",".","0",".","0",".","1",":","8","4","4","3">>

\* Host headers the HTTP clients send and server names the TLS clients put
\* in their ClientHello
ClientNames == {ExampleCom, EvilTest}


(***************************************************************************)
(* Program constants.                                                      *)
(***************************************************************************)
\* https.go: reader.Peek(1024)
PeekLen == 1024
\* bufio.NewReader(conn) allocates the default buffer of 4096 bytes
BufSize == 4096

\* sizes of the segments in which a TLS client's bytes arrive
ChunkSizes == {512, 1024}
\* bytes a TLS client sends at most
MaxClientBytes == 2048

(***************************************************************************)
(* State.                                                                  *)
(***************************************************************************)
VARIABLES
    \* ---- one handler goroutine per accepted connection
    pc,          \* position of the handler in its code
    kind,        \* "http" (handleHTTPProxy) or "tls" (the TLS front door)
    name,        \* the Host header, or the server name of the ClientHello
    sni,         \* the name the peeker returned to the TLS handler
    meta,        \* the handler's ConnMeta value
    connId,      \* the id Add returned
    rmPC,        \* the *ProxyConnection that Remove loaded
    hijacked,    \* the ResponseWriter's connection was hijacked
    resp,        \* the HTTP status the client received, "none" if none
    dialTarget,  \* the address of the upstream dial, EmptyStr if none
    useWrapped,  \* the handler's clientConn is the connWithBufferedReader
    \* ---- sockets of a connection
    closed,      \* [c, s]: Close was called on the client / upstream socket
    preamble,    \* [c, s]: the forced-close preamble reached the peer
    \* ---- byte pump
    copy,        \* [cs, sc]: "idle", "running", "done" per proxyCopy
    wg,          \* the handler's sync.WaitGroup counter
    \* ---- bytes of the client's stream, named by their offset
    helloNames,  \* the server names the TLS clients put in the ClientHello
    segs,        \* the sizes of the segments the TLS clients send
    cLeft,       \* bytes the client has still to send
    cSent,       \* bytes the client has sent
    sockPos,     \* bytes the proxy has read from the client socket
    bufR, bufW,  \* the bufio.Reader holds the bytes [bufR, bufW)
    upRecv,      \* what the upstream received: a sequence of <<from, to>>
    \* ---- ConnManager and the metrics block
    conns,       \* the sync.Map: id -> ProxyConnection
    idSeq,       \* ConnManager.idSeq
    metrics,     \* the five atomic counters
    \* ---- the file watcher's goroutine, inside CloseByFilter
    sw,
    \* ---- RequestFilter and its callers
    allowedHosts, allowedSNIs,
    mu,          \* the sync.RWMutex: [w: a writer holds it, r: readers]
    rl,          \* the goroutine inside Reload
    qs,          \* the goroutines inside AllowHTTP / AllowSNI
    committed,   \* history: the pairs of sets the filter was given
    tlsTermination,  \* StartHTTPSServer's flag
    watch,       \* StartFileWatcher's loop: [pc, op, sweeps]
    \* ---- history, read by the properties only
    issued,      \* the numbers NextID handed out, in the order of increment
    stored,      \* per id: how many times Store inserted it
    deleters     \* per connection: who deleted its entry from the registry

hvars   == <<pc, kind, name, sni, meta, connId, rmPC, hijacked, resp,
             dialTarget, useWrapped>>
sockvars == <<closed, preamble>>
pumpvars == <<copy, wg>>
bytevars == <<helloNames, segs, cLeft, cSent, sockPos, bufR, bufW, upRecv>>
regvars == <<conns, idSeq, metrics>>
srvvars == <<allowedHosts, allowedSNIs, mu, rl, qs, committed,
             tlsTermination, watch>>
histvars == <<issued, stored, deleters>>
vars == <<hvars, sockvars, pumpvars, bytevars, regvars, sw, srvvars,
          histvars>>

\* the zero value of ConnMeta
ZeroMeta == [ID |-> EmptyStr, ServerAddr |-> EmptyStr, Hostname |-> EmptyStr,
             SNI |-> EmptyStr, Protocol |-> EmptyStr, HAProxyAddr |-> EmptyStr]

\* var metrics = struct{...}{}
ZeroMetrics == [ClientProxyConns |-> 0, ProxyServerConns |-> 0,
                ProxyHAProxyConns |-> 0, HTTPConnCount |-> 0,
                HTTPSConnCount |-> 0]

NoPC == [Client |-> [h |-> 0, wrapped |-> FALSE], Server |-> 0,
         Meta |-> ZeroMeta]

\* NewRequestFilter
DefaultHosts == {ExampleCom, WwwGoogleCom}
DefaultSNIs == {ExampleCom, WwwGoogleCom}

\* concurrent callers of AllowHTTP / AllowSNI, and calls of Reload
NumQueries == 2
MaxReloads == 2
Queries == 1..NumQueries

ReloadIdle == [pc |-> "idle", hosts |-> << >>, snis |-> << >>, n |-> 0]
QueryIdle == [pc |-> "idle", fn |-> "none", arg |-> EmptyStr, res |-> FALSE,
              view |-> << {}, {} >>, from |-> 0]

\* the watcher waits in its select; op and sweeps describe the last event
WatchIdle == [pc |-> "select", op |-> {}, sweeps |-> 0]

SweepIdle == [pc |-> "idle", start |-> {}, visited |-> {}, cur |-> EmptyStr,
              curPC |-> NoPC, clean |-> TRUE, filter |-> "all"]

InitCommon ==
    /\ pc = [h \in Handlers |-> "idle"]
    /\ kind = [h \in Handlers |-> "http"]
    /\ name = [h \in Handlers |-> EmptyStr]
    /\ sni = [h \in Handlers |-> EmptyStr]
    /\ meta = [h \in Handlers |-> ZeroMeta]
    /\ connId = [h \in Handlers |-> EmptyStr]
    /\ rmPC = [h \in Handlers |-> NoPC]
    /\ hijacked = [h \in Handlers |-> FALSE]
    /\ resp = [h \in Handlers |-> "none"]
    /\ dialTarget = [h \in Handlers |-> EmptyStr]
    /\ useWrapped = [h \in Handlers |-> FALSE]
    /\ closed = [h \in Handlers |-> [c |-> FALSE, s |-> FALSE]]
    /\ preamble = [h \in Handlers |-> [c |-> FALSE, s |-> FALSE]]
    /\ copy = [h \in Handlers |-> [cs |-> "idle", sc |-> "idle"]]
    /\ wg = [h \in Handlers |-> 0]
    /\ cSent = [h \in Handlers |-> 0]
    /\ sockPos = [h \in Handlers |-> 0]
    /\ bufR = [h \in Handlers |-> 0]
    /\ bufW = [h \in Handlers |-> 0]
    /\ upRecv = [h \in Handlers |-> << >>]
    /\ conns = << >>
    /\ idSeq = 0
    /\ metrics = ZeroMetrics
    /\ sw = SweepIdle
    /\ allowedHosts = DefaultHosts
    /\ allowedSNIs = DefaultSNIs
    /\ mu = [w |-> FALSE, r |-> 0]
    /\ rl = ReloadIdle
    /\ qs = [i \in Queries |-> QueryIdle]
    /\ committed = << <<DefaultHosts, DefaultSNIs>> >>
    /\ watch = WatchIdle
    /\ issued = << >>
    /\ stored = << >>
    /\ deleters = [h \in Handlers |-> {}]

\* The proxy as main.go starts it: three listeners, TLS termination on, and
\* the watcher.  Every TLS client sends up to MaxClientBytes bytes in
\* segments of PeekLen bytes.
Init ==
    /\ InitCommon
    /\ tlsTermination = TRUE
    /\ helloNames = {EvilTest}
    /\ segs = {PeekLen}
    /\ cLeft = [h \in Handlers |-> MaxClientBytes]

(***************************************************************************)
(* Small helpers.                                                          *)
(***************************************************************************)
Min(a, b) == IF a <= b THEN a ELSE b

\* atomic.AddInt64(&metrics.<field>, d)
AtomicAdd(m, field, d) == [m EXCEPT ![field] = @ + d]

\* the map with key k bound to v (sync.Map.Store)
MapStore(m, k, v) == [x \in DOMAIN m \cup {k} |-> IF x = k THEN v ELSE m[x]]

\* the map without key k (sync.Map.Delete)
\* a Delete that empties the map
\* a Delete that leaves the map as it is
MapDeleteNone(m, k) == m

MapDeleteAll(m, k) == << >>

MapDelete(m, k) == [x \in DOMAIN m \ {k} |-> m[x]]

\* the handler that owns the sockets of a registered pair
Owner(p) == p.Server

(***************************************************************************)
(* RequestFilter queries.                                                  *)
(***************************************************************************)
\* a filter that lets every host through
AllowHTTPAll(hosts, host) == TRUE

\* AllowHTTP: lowercase, then exact membership
AllowHTTP(hosts, host) == ToLower(host) \in hosts

\* AllowSNI: lowercase, then exact membership
AllowSNI(snis, s) == ToLower(s) \in snis

(***************************************************************************)
(* A listener accepts a connection and starts its handler.  The handlers   *)
(* are numbered in the order of acceptance.                                *)
(***************************************************************************)
Accepts(h) ==
    /\ pc[h] = "idle"
    /\ \A g \in Handlers : g < h => pc[g] # "idle"

\* StartHTTPServer / StartHAProxyListener: a request with Host header nm
AcceptHTTP(h) ==
    /\ Accepts(h)
    /\ \E nm \in ClientNames :
         /\ kind' = [kind EXCEPT ![h] = "http"]
         /\ name' = [name EXCEPT ![h] = nm]
         /\ pc' = [pc EXCEPT ![h] = "h_filter"]
    /\ UNCHANGED <<sni, meta, connId, rmPC, hijacked, resp, dialTarget,
                   useWrapped, sockvars, pumpvars, bytevars, regvars, sw,
                   srvvars, histvars>>

\* StartHTTPSServer: a client whose ClientHello carries the server name nm
AcceptTLS(h) ==
    /\ Accepts(h)
    /\ \E nm \in helloNames :
         /\ kind' = [kind EXCEPT ![h] = "tls"]
         /\ name' = [name EXCEPT ![h] = nm]
         /\ pc' = [pc EXCEPT ![h] = "t_peek"]
    /\ UNCHANGED <<sni, meta, connId, rmPC, hijacked, resp, dialTarget,
                   useWrapped, sockvars, pumpvars, bytevars, regvars, sw,
                   srvvars, histvars>>

(***************************************************************************)
(* handleHTTPProxy.                                                        *)
(***************************************************************************)
\* the text handleHTTPProxy passes to http.Error with the 403
BlockedMsg == <<"B","l","o","c","k","e","d"," ","b","y"," ",
                "p","r","o","x","y"," ","f","i","l","t","e","r">>

\* http.Error writes the text and a line end as the body: fmt.Fprintln(w, msg)
HTTPErrorBody(msg) == msg \o <<"\n">>

\* http.Error(w, msg, code): the status reaches the client unless the
\* connection was hijacked, when net/http drops the write (ErrHijacked)
HTTPError(hij, cur, code) == IF hij THEN cur ELSE code

\* if !filter.AllowHTTP(r.Host, r.URL.Path) { 403; return }
HTTPFilter(h) ==
    /\ pc[h] = "h_filter"
    /\ IF AllowHTTP(allowedHosts, name[h])
       THEN /\ pc' = [pc EXCEPT ![h] = "h_hijack"]
            /\ resp' = resp
       ELSE /\ pc' = [pc EXCEPT ![h] = "done"]
            /\ resp' = [resp EXCEPT ![h] = HTTPError(hijacked[h], @, "403")]
    /\ UNCHANGED <<kind, name, sni, meta, connId, rmPC, hijacked, dialTarget,
                   useWrapped, sockvars, pumpvars, bytevars, regvars, sw,
                   srvvars, histvars>>

\* hj.Hijack(): on failure 500 and return
HTTPHijack(h) ==
    /\ pc[h] = "h_hijack"
    /\ \E ok \in BOOLEAN :
         IF ok
         THEN /\ hijacked' = [hijacked EXCEPT ![h] = TRUE]
              /\ pc' = [pc EXCEPT ![h] = "h_dial"]
              /\ resp' = resp
         ELSE /\ hijacked' = hijacked
              /\ pc' = [pc EXCEPT ![h] = "done"]
              /\ resp' = [resp EXCEPT ![h] = HTTPError(hijacked[h], @, "500")]
    /\ UNCHANGED <<kind, name, sni, meta, connId, rmPC, dialTarget,
                   useWrapped, sockvars, pumpvars, bytevars, regvars, sw,
                   srvvars, histvars>>

\* net.DialTimeout("tcp", r.Host+":80"); on failure http.Error(502),
\* clientConn.Close() and return; on success the ConnMeta is built
HTTPDial(h) ==
    /\ pc[h] = "h_dial"
    /\ dialTarget' = [dialTarget EXCEPT ![h] = name[h] \o Port80]
    /\ \E ok \in BOOLEAN :
         IF ok
         THEN /\ meta' = [meta EXCEPT ![h] =
                    [ZeroMeta EXCEPT !.ServerAddr = name[h] \o Port80,
                                     !.Hostname = name[h],
                                     !.Protocol = ProtoHTTP]]
              /\ pc' = [pc EXCEPT ![h] = "add_id"]
              /\ UNCHANGED <<resp, closed>>
         ELSE /\ resp' = [resp EXCEPT ![h] = HTTPError(hijacked[h], @, "502")]
              /\ closed' = [closed EXCEPT ![h].c = TRUE]
              /\ pc' = [pc EXCEPT ![h] = "done"]
              /\ meta' = meta
    /\ UNCHANGED <<kind, name, sni, connId, rmPC, hijacked, useWrapped,
                   preamble, pumpvars, bytevars, regvars, sw,
                   srvvars, histvars>>

(***************************************************************************)
(* ConnManager.Add, one step per shared-memory operation.                  *)
(***************************************************************************)
\* a read-then-write increment that loses an update: with it two calls of
\* NextID get the same number
NextSeqLost(s) == IF s = 0 THEN 1 ELSE s

\* atomic.AddUint64(&m.idSeq, 1): the new value of the counter.  The counter
\* is a uint64; the model stops far below 2^64, where it would wrap.
NextSeq(s) == s + 1

\* fmt.Sprintf("conn-%d", id)
FormatID(n) == ConnPrefix \o FormatUint(n)

\* a sweep that is under way has now run concurrently with an Add
SweepSeesAdd == IF sw.pc \in {"idle", "returned"} THEN sw
                ELSE [sw EXCEPT !.clean = FALSE]

\* an Add that counts every connection as plain HTTP
AddProtoCounterHTTPOnly(m) == "HTTPConnCount"

\* which of the two protocol counters Add increments
AddProtoCounter(m) ==
    IF HasPrefix(m.Protocol, HttpsPrefix) THEN "HTTPSConnCount"
    ELSE "HTTPConnCount"

\* whether Add increments ProxyHAProxyConns
AddCountsHAProxy(m) == m.HAProxyAddr # EmptyStr

\* meta.ID = m.NextID()
AddNextID(h) ==
    /\ pc[h] = "add_id"
    /\ idSeq' = NextSeq(idSeq)
    /\ meta' = [meta EXCEPT ![h].ID = FormatID(idSeq')]
    /\ issued' = Append(issued, idSeq')
    /\ pc' = [pc EXCEPT ![h] = "add_store"]
    /\ sw' = SweepSeesAdd
    /\ UNCHANGED <<kind, name, sni, connId, rmPC, hijacked, resp, dialTarget,
                   useWrapped, sockvars, pumpvars, bytevars, conns, metrics,
                   srvvars, stored, deleters>>

\* m.conns.Store(meta.ID, &ProxyConnection{client, server, meta})
AddStore(h) ==
    /\ pc[h] = "add_store"
    /\ conns' = MapStore(conns, meta[h].ID,
                         [Client |-> [h |-> h, wrapped |-> useWrapped[h]],
                          Server |-> h,
                          Meta |-> meta[h]])
    /\ stored' = MapStore(stored, meta[h].ID,
                          IF meta[h].ID \in DOMAIN stored
                          THEN stored[meta[h].ID] + 1 ELSE 1)
    /\ pc' = [pc EXCEPT ![h] = "add_metrics"]
    /\ sw' = SweepSeesAdd
    /\ UNCHANGED <<kind, name, sni, meta, connId, rmPC, hijacked, resp,
                   dialTarget, useWrapped, sockvars, pumpvars, bytevars,
                   idSeq, metrics, srvvars, issued, deleters>>

\* The metric deltas of Add: +1 on both side counters, +1 on the HTTPS or
\* the HTTP counter, +1 on ProxyHAProxyConns if HAProxyAddr is set.
AddDeltas(m, e) ==
    LET m1 == AtomicAdd(m, "ClientProxyConns", 1)
        m2 == AtomicAdd(m1, "ProxyServerConns", 1)
        m3 == AtomicAdd(m2, AddProtoCounter(e), 1)
    IN  IF AddCountsHAProxy(e) THEN AtomicAdd(m3, "ProxyHAProxyConns", 1)
        ELSE m3

\* The atomic.AddInt64 calls of Add, then return meta.ID.  Nothing in the
\* proxy reads the counters, so the calls are taken as one step.
AddMetrics(h) ==
    /\ pc[h] = "add_metrics"
    /\ metrics' = AddDeltas(metrics, meta[h])
    /\ pc' = [pc EXCEPT ![h] = "added"]
    /\ connId' = [connId EXCEPT ![h] = meta[h].ID]
    /\ sw' = SweepSeesAdd
    /\ UNCHANGED <<kind, name, sni, meta, rmPC, hijacked, resp,
                   dialTarget, useWrapped, sockvars, pumpvars, bytevars,
                   conns, idSeq, srvvars, histvars>>

(***************************************************************************)
(* The byte pump: wg.Add(2), two proxyCopy goroutines, wg.Wait().          *)
(***************************************************************************)
PumpStarted == [cs |-> "running", sc |-> "running"]

\* r.Write(serverConn): on error closeConnPair and return, else the pump
\* starts.  The write fails when the upstream socket is closed; it may fail
\* for the upstream's own reasons too.
HTTPForward(h) ==
    /\ pc[h] = "added"
    /\ kind[h] = "http"
    /\ \E ok \in BOOLEAN :
         /\ ok => ~closed[h].s
         /\ IF ok
            THEN /\ wg' = [wg EXCEPT ![h] = 2]
                 /\ copy' = [copy EXCEPT ![h] = PumpStarted]
                 /\ pc' = [pc EXCEPT ![h] = "wait"]
            ELSE /\ pc' = [pc EXCEPT ![h] = "ccp_load"]
                 /\ UNCHANGED <<wg, copy>>
    /\ UNCHANGED <<kind, name, sni, meta, connId, rmPC, hijacked, resp,
                   dialTarget, useWrapped, sockvars, bytevars, regvars, sw,
                   srvvars, histvars>>

\* the TLS front doors start the pump right after Add
TLSStartPump(h) ==
    /\ pc[h] = "added"
    /\ kind[h] = "tls"
    /\ wg' = [wg EXCEPT ![h] = 2]
    /\ copy' = [copy EXCEPT ![h] = PumpStarted]
    /\ pc' = [pc EXCEPT ![h] = "wait"]
    /\ UNCHANGED <<kind, name, sni, meta, connId, rmPC, hijacked, resp,
                   dialTarget, useWrapped, sockvars, bytevars, regvars, sw,
                   srvvars, histvars>>

\* a wait that returns as soon as one of the two directions has finished
WaitReturnsEarly(w) == w <= 1

\* wg.Wait() returns
WaitReturns(w) == w = 0

\* the bytes [lo, hi) of the client's stream arrive at the upstream
AppendBytes(r, lo, hi) ==
    IF lo = hi THEN r
    ELSE IF r # << >> /\ r[Len(r)][2] = lo
         THEN [r EXCEPT ![Len(r)] = <<r[Len(r)][1], hi>>]
         ELSE Append(r, <<lo, hi>>)

\* bytes waiting in the client socket, and bytes held by the bufio.Reader
Avail(h) == cSent[h] - sockPos[h]
Buffered(h) == bufW[h] - bufR[h]

\* a Read of the handler's clientConn would return data
Readable(h) ==
    \/ useWrapped[h] /\ Buffered(h) > 0
    \/ Avail(h) > 0 /\ ~closed[h].c

\* a pending Read that the Close of its socket does not interrupt
SourceClosedUnnoticed(h, d) == FALSE

\* the source socket of a copy direction was closed by this process: the
\* pending Read fails
SourceClosed(h, d) ==
    IF d = "cs" THEN closed[h].c /\ ~Readable(h) ELSE closed[h].s

\* a Write of the copy direction fails: the destination socket was closed
\* by this process and the source still delivers data
WriteFails(h, d) ==
    IF d = "cs"
    THEN closed[h].s /\ (Readable(h) \/ (kind[h] = "http" /\ ~closed[h].c))
    ELSE closed[h].c /\ ~closed[h].s

\* io.Copy(serverConn, clientConn) moves what a Read of the client side
\* returns: the connWithBufferedReader serves the bytes the bufio.Reader
\* holds and reads the socket only when it holds none; the raw connection
\* reads the socket
CopyClientData(h) ==
    /\ copy[h].cs = "running"
    /\ ~closed[h].s
    /\ Readable(h)
    /\ IF useWrapped[h] /\ Buffered(h) > 0
       THEN /\ upRecv' = [upRecv EXCEPT ![h] = AppendBytes(@, bufR[h], bufW[h])]
            /\ bufR' = [bufR EXCEPT ![h] = bufW[h]]
            /\ sockPos' = sockPos
       ELSE /\ upRecv' = [upRecv EXCEPT ![h] = AppendBytes(@, sockPos[h], cSent[h])]
            /\ sockPos' = [sockPos EXCEPT ![h] = cSent[h]]
            /\ bufR' = bufR
    /\ UNCHANGED <<hvars, sockvars, pumpvars, helloNames, segs, cLeft, cSent, bufW,
                   regvars, sw,
                   srvvars, histvars>>

\* proxyCopy returns when io.Copy returns: defer wg.Done()
ProxyCopyReturns(h, d) ==
    /\ copy' = [copy EXCEPT ![h][d] = "done"]
    /\ wg' = [wg EXCEPT ![h] = @ - 1]
    /\ UNCHANGED <<hvars, sockvars, bytevars, regvars, sw, srvvars,
                   histvars>>

\* io.Copy returns at the end of the stream: the peer of the source socket
\* has closed its end and everything it sent was read
CopyEOF(h, d) ==
    /\ copy[h][d] = "running"
    /\ IF d = "cs" THEN ~closed[h].c /\ ~Readable(h) ELSE ~closed[h].s
    /\ ProxyCopyReturns(h, d)

\* io.Copy returns with the error of a Read on a closed socket
CopyClosed(h, d) ==
    /\ copy[h][d] = "running"
    /\ SourceClosed(h, d)
    /\ ProxyCopyReturns(h, d)

\* io.Copy returns with the error of a Write
CopyWriteError(h, d) ==
    /\ copy[h][d] = "running"
    /\ WriteFails(h, d)
    /\ ProxyCopyReturns(h, d)

\* wg.Wait() returns; the HTTP handler goes on to closeConnPair, the TLS
\* handlers to cm.Remove
Wait(h) ==
    /\ pc[h] = "wait"
    /\ WaitReturns(wg[h])
    /\ pc' = [pc EXCEPT ![h] = IF kind[h] = "http" THEN "ccp_load" ELSE "rm_load"]
    /\ UNCHANGED <<kind, name, sni, meta, connId, rmPC, hijacked, resp,
                   dialTarget, useWrapped, sockvars, pumpvars, bytevars,
                   regvars, sw, srvvars, histvars>>

(***************************************************************************)
(* The TLS client.  A segment is observed by the proxy only through a      *)
(* Read, so the client sends while a reader of its socket exists.          *)
(***************************************************************************)
ClientHasReader(h) == pc[h] = "t_peek" \/ copy[h].cs = "running"

\* a TLS client sends its next n bytes
ClientSend(h, n) ==
    /\ kind[h] = "tls"
    /\ ClientHasReader(h)
    /\ n \in segs
    /\ n <= cLeft[h]
    /\ cSent' = [cSent EXCEPT ![h] = @ + n]
    /\ cLeft' = [cLeft EXCEPT ![h] = @ - n]
    /\ UNCHANGED <<hvars, sockvars, pumpvars, helloNames, segs, sockPos, bufR, bufW,
                   upRecv, regvars, sw, srvvars, histvars>>

\* a TLS handler that returns from Remove without running its deferred
\* Close calls
AfterRemoveNoDefer(h) == "done"

(***************************************************************************)
(* closeConnPair and ConnManager.Remove.                                   *)
(***************************************************************************)
\* where the handler continues when Remove returns: handleHTTPProxy
\* returns, the TLS handlers run their deferred Close calls
AfterRemove(h) == IF kind[h] = "http" THEN "done" ELSE "t_defer_s"

\* value, ok := cm.conns.Load(id); if !ok { return }
CCPLoad(h) ==
    /\ pc[h] = "ccp_load"
    /\ pc' = [pc EXCEPT ![h] = IF connId[h] \in DOMAIN conns
                               THEN "ccp_close_c" ELSE "done"]
    /\ UNCHANGED <<kind, name, sni, meta, connId, rmPC, hijacked, resp,
                   dialTarget, useWrapped, sockvars, pumpvars, bytevars,
                   regvars, sw, srvvars, histvars>>

\* pc.Client.Close()
CCPCloseClient(h) ==
    /\ pc[h] = "ccp_close_c"
    /\ closed' = [closed EXCEPT ![h].c = TRUE]
    /\ pc' = [pc EXCEPT ![h] = "ccp_close_s"]
    /\ UNCHANGED <<kind, name, sni, meta, connId, rmPC, hijacked, resp,
                   dialTarget, useWrapped, preamble, pumpvars, bytevars,
                   regvars, sw, srvvars, histvars>>

\* pc.Server.Close(); then cm.Remove(id)
CCPCloseServer(h) ==
    /\ pc[h] = "ccp_close_s"
    /\ closed' = [closed EXCEPT ![h].s = TRUE]
    /\ pc' = [pc EXCEPT ![h] = "rm_load"]
    /\ UNCHANGED <<kind, name, sni, meta, connId, rmPC, hijacked, resp,
                   dialTarget, useWrapped, preamble, pumpvars, bytevars,
                   regvars, sw, srvvars, histvars>>

\* which of the two protocol counters Remove decrements
RemoveProtoCounter(m) ==
    IF HasPrefix(m.Protocol, HttpsPrefix) THEN "HTTPSConnCount"
    ELSE "HTTPConnCount"

\* whether Remove decrements ProxyHAProxyConns
RemoveCountsHAProxy(m) == m.HAProxyAddr # EmptyStr

\* value, ok := m.conns.Load(id); if !ok { return }
RmLoad(h) ==
    /\ pc[h] = "rm_load"
    /\ IF connId[h] \in DOMAIN conns
       THEN /\ rmPC' = [rmPC EXCEPT ![h] = conns[connId[h]]]
            /\ pc' = [pc EXCEPT ![h] = "rm_delete"]
       ELSE /\ rmPC' = rmPC
            /\ pc' = [pc EXCEPT ![h] = AfterRemove(h)]
    /\ UNCHANGED <<kind, name, sni, meta, connId, hijacked, resp,
                   dialTarget, useWrapped, sockvars, pumpvars, bytevars,
                   regvars, sw, srvvars, histvars>>

\* a key that was deleted is no longer one a Range under way has to visit
\* or has visited: ids do not come back
RangeForget(r, k) == [r EXCEPT !.start = @ \ {k}, !.visited = @ \ {k}]

\* m.conns.Delete(id)
RmDelete(h) ==
    /\ pc[h] = "rm_delete"
    /\ conns' = MapDelete(conns, connId[h])
    /\ sw' = RangeForget(sw, connId[h])
    /\ deleters' = IF connId[h] \in DOMAIN conns
                   THEN [deleters EXCEPT ![h] = @ \cup {"handler"}]
                   ELSE deleters
    /\ pc' = [pc EXCEPT ![h] = "rm_metrics"]
    /\ UNCHANGED <<kind, name, sni, meta, connId, rmPC, hijacked, resp,
                   dialTarget, useWrapped, sockvars, pumpvars, bytevars,
                   idSeq, metrics, srvvars, issued, stored>>

\* The metric deltas of Remove, from the Meta of the entry it loaded.
RemoveDeltas(m, e) ==
    LET m1 == AtomicAdd(m, "ClientProxyConns", -1)
        m2 == AtomicAdd(m1, "ProxyServerConns", -1)
        m3 == AtomicAdd(m2, RemoveProtoCounter(e), -1)
    IN  IF RemoveCountsHAProxy(e) THEN AtomicAdd(m3, "ProxyHAProxyConns", -1)
        ELSE m3

\* the atomic.AddInt64 calls of Remove, then Remove returns
RmMetrics(h) ==
    /\ pc[h] = "rm_metrics"
    /\ metrics' = RemoveDeltas(metrics, rmPC[h].Meta)
    /\ pc' = [pc EXCEPT ![h] = AfterRemove(h)]
    /\ UNCHANGED <<kind, name, sni, meta, connId, rmPC, hijacked, resp,
                   dialTarget, useWrapped, sockvars, pumpvars, bytevars,
                   conns, idSeq, sw, srvvars, histvars>>

(***************************************************************************)
(* The TLS front door: handleTLSWithTermination, handleTLSPassthrough.     *)
(***************************************************************************)
\* extractSNIFromTLSClientHello(data): whatever server name the ClientHello
\* carries, the placeholder returns "example.com" and no error
ExtractSNIFromTLSClientHello(helloName) == ExampleCom

\* reader.Peek(1024) fills the buffer with one Read of the socket after the
\* other until it holds PeekLen bytes
TLSPeekFill(h) ==
    /\ pc[h] = "t_peek"
    /\ Buffered(h) < PeekLen
    /\ Buffered(h) < BufSize
    /\ Avail(h) > 0
    /\ LET k == Min(Avail(h), BufSize - bufW[h]) IN
         /\ sockPos' = [sockPos EXCEPT ![h] = @ + k]
         /\ bufW' = [bufW EXCEPT ![h] = @ + k]
    /\ UNCHANGED <<hvars, sockvars, pumpvars, helloNames, segs, cLeft, cSent, bufR,
                   upRecv,
                   regvars, sw, srvvars, histvars>>

\* Peek returns PeekLen bytes.  Then the name is extracted and the filter
\* asked.  handleTLSPassthrough goes on with the wrapped connection;
\* handleTLSWithTermination calls parseClientHelloSNI, which drops the
\* wrapped connection, and goes on with the connection it was given.
TLSPeekDone(h) ==
    /\ pc[h] = "t_peek"
    /\ Buffered(h) >= PeekLen
    /\ LET s == ExtractSNIFromTLSClientHello(name[h]) IN
         /\ sni' = [sni EXCEPT ![h] = s]
         /\ IF s # EmptyStr /\ AllowSNI(allowedSNIs, s)
            THEN /\ pc' = [pc EXCEPT ![h] = "t_dial"]
                 /\ useWrapped' = [useWrapped EXCEPT ![h] = ~tlsTermination]
            ELSE /\ pc' = [pc EXCEPT ![h] = "t_defer_c"]
                 /\ useWrapped' = useWrapped
    /\ UNCHANGED <<kind, name, meta, connId, rmPC, hijacked, resp, dialTarget,
                   sockvars, pumpvars, bytevars, regvars, sw, srvvars,
                   histvars>>

\* Peek returns the error of a Read: the client closed its end before
\* PeekLen bytes came; the handler returns
TLSPeekFail(h) ==
    /\ pc[h] = "t_peek"
    /\ Buffered(h) < PeekLen
    /\ Avail(h) = 0
    /\ pc' = [pc EXCEPT ![h] = "t_defer_c"]
    /\ UNCHANGED <<kind, name, sni, meta, connId, rmPC, hijacked, resp,
                   dialTarget, useWrapped, sockvars, pumpvars, bytevars,
                   regvars, sw, srvvars, histvars>>

\* a front door that dials the named server in either mode
TLSDialAddrSNI(term, s) == s \o Port443

\* the address the TLS front door dials
TLSDialAddr(term, s) == IF term THEN HAProxyAddress ELSE s \o Port443

\* the ConnMeta the TLS front door registers
TLSMeta(term, s) ==
    IF term
    THEN [ZeroMeta EXCEPT !.ServerAddr = HAProxyAddress, !.SNI = s,
                          !.Protocol = ProtoTermination,
                          !.HAProxyAddr = HAProxyAddress]
    ELSE [ZeroMeta EXCEPT !.ServerAddr = s \o Port443, !.SNI = s,
                          !.Protocol = ProtoPassthrough]

\* net.Dial("tcp", haproxyAddress) / net.DialTimeout("tcp", sni+":443")
TLSDial(h) ==
    /\ pc[h] = "t_dial"
    /\ dialTarget' = [dialTarget EXCEPT ![h] = TLSDialAddr(tlsTermination, sni[h])]
    /\ \E ok \in BOOLEAN :
         IF ok
         THEN /\ meta' = [meta EXCEPT ![h] = TLSMeta(tlsTermination, sni[h])]
              /\ pc' = [pc EXCEPT ![h] = "add_id"]
         ELSE /\ meta' = meta
              /\ pc' = [pc EXCEPT ![h] = "t_defer_c"]
    /\ UNCHANGED <<kind, name, sni, connId, rmPC, hijacked, resp, useWrapped,
                   sockvars, pumpvars, bytevars, regvars, sw, srvvars,
                   histvars>>

\* defer haproxyConn.Close() / defer destConn.Close()
TLSDeferServer(h) ==
    /\ pc[h] = "t_defer_s"
    /\ closed' = [closed EXCEPT ![h].s = TRUE]
    /\ pc' = [pc EXCEPT ![h] = "t_defer_c"]
    /\ UNCHANGED <<kind, name, sni, meta, connId, rmPC, hijacked, resp,
                   dialTarget, useWrapped, preamble, pumpvars, bytevars,
                   regvars, sw, srvvars, histvars>>

\* defer clientConn.Close()
TLSDeferClient(h) ==
    /\ pc[h] = "t_defer_c"
    /\ closed' = [closed EXCEPT ![h].c = TRUE]
    /\ pc' = [pc EXCEPT ![h] = "done"]
    /\ UNCHANGED <<kind, name, sni, meta, connId, rmPC, hijacked, resp,
                   dialTarget, useWrapped, preamble, pumpvars, bytevars,
                   regvars, sw, srvvars, histvars>>

(***************************************************************************)
(* StartFileWatcher: a Write or Create event calls CloseByFilter with the  *)
(* always-true filter.  sync.Map.Range visits every key that is present    *)
(* for the whole call; a key stored or deleted meanwhile may be visited or *)
(* not.                                                                    *)
(***************************************************************************)
AddRunning == {"add_store", "add_metrics"}

\* the filter the watcher passes
CloseAll(m) == TRUE

\* filter functions a caller of CloseByFilter may pass: the watcher's, one
\* that selects the TLS connections, one that selects the HTTP connections
Filters == {"all", "https", "http"}

\* what the filter function f returns for the metadata m
Filter(f, m) ==
    CASE f = "all" -> CloseAll(m)
      [] f = "https" -> HasPrefix(m.Protocol, HttpsPrefix)
      [] OTHER -> m.Protocol = ProtoHTTP

\* a Range callback that does not ask the filter
ClosesEveryEntry(f, m) == TRUE

\* if filter(&pc.Meta) {: the Range callback closes the entries the filter
\* accepts
ClosesEntry(f, m) == Filter(f, m)

\* m.CloseByFilter(filter) is called
CloseByFilter(f) ==
    /\ sw.pc \in {"idle", "returned"}
    /\ sw' = [pc |-> "range", start |-> DOMAIN conns, visited |-> {},
              cur |-> EmptyStr, curPC |-> NoPC,
              clean |-> \A h \in Handlers : pc[h] \notin AddRunning,
              filter |-> f]
    /\ UNCHANGED <<hvars, sockvars, pumpvars, bytevars, regvars, histvars>>

\* cm.CloseByFilter(func(meta *ConnMeta) bool { return true }) is called
CloseByFilterCall == CloseByFilter("all")

\* a Write or Create event arrives and the watcher calls CloseByFilter
SweepBegin ==
    /\ CloseByFilterCall
    /\ UNCHANGED srvvars

\* Range calls the function for the next entry: if filter(&pc.Meta) {
SweepVisit(k) ==
    /\ sw.pc = "range"
    /\ k \in DOMAIN conns \ sw.visited
    /\ sw' = [sw EXCEPT !.visited = @ \cup {k}, !.cur = k, !.curPC = conns[k],
                        !.pc = IF ClosesEntry(sw.filter, conns[k].Meta)
                               THEN "w_client"
                               ELSE "range"]
    /\ UNCHANGED <<hvars, sockvars, pumpvars, bytevars, regvars, srvvars,
                   histvars>>

\* the bytes sendHTTPConnectionClose writes
PreambleText ==
    <<"H","T","T","P","/","1",".","1"," ","2","0","0"," ","O","K","\r","\n",
      "C","o","n","n","e","c","t","i","o","n",":"," ","c","l","o","s","e",
      "\r","\n","\r","\n">>

\* a sendHTTPConnectionClose that writes nothing
SendNothing(isClosed, got) == got

\* sendHTTPConnectionClose(conn): the preamble reaches the peer unless the
\* socket is closed; the error is only logged
SendHTTPConnectionClose(isClosed, got) == got \/ ~isClosed

\* sendHTTPConnectionClose(pc.Client)
SweepWriteClient ==
    /\ sw.pc = "w_client"
    /\ LET h == Owner(sw.curPC) IN
         preamble' = [preamble EXCEPT ![h].c =
                         SendHTTPConnectionClose(closed[h].c, @)]
    /\ sw' = [sw EXCEPT !.pc = "w_server"]
    /\ UNCHANGED <<hvars, closed, pumpvars, bytevars, regvars,
                   srvvars, histvars>>

\* sendHTTPConnectionClose(pc.Server)
SweepWriteServer ==
    /\ sw.pc = "w_server"
    /\ LET h == Owner(sw.curPC) IN
         preamble' = [preamble EXCEPT ![h].s =
                         SendHTTPConnectionClose(closed[h].s, @)]
    /\ sw' = [sw EXCEPT !.pc = "c_client"]
    /\ UNCHANGED <<hvars, closed, pumpvars, bytevars, regvars,
                   srvvars, histvars>>

\* pc.Client.Close()
SweepCloseClient ==
    /\ sw.pc = "c_client"
    /\ closed' = [closed EXCEPT ![Owner(sw.curPC)].c = TRUE]
    /\ sw' = [sw EXCEPT !.pc = "c_server"]
    /\ UNCHANGED <<hvars, preamble, pumpvars, bytevars, regvars,
                   srvvars, histvars>>

\* pc.Server.Close()
SweepCloseServer ==
    /\ sw.pc = "c_server"
    /\ closed' = [closed EXCEPT ![Owner(sw.curPC)].s = TRUE]
    /\ sw' = [sw EXCEPT !.pc = "delete"]
    /\ UNCHANGED <<hvars, preamble, pumpvars, bytevars, regvars,
                   srvvars, histvars>>

\* a CloseByFilter that takes back the metric deltas of the entry it deletes,
\* whether or not a Remove does so too
SweepMetricsRemove(m, e) == RemoveDeltas(m, e.Meta)

\* what CloseByFilter does to the counters when it deletes an entry
SweepMetrics(m, e) == m

\* m.conns.Delete(key)
SweepDelete ==
    /\ sw.pc = "delete"
    /\ conns' = MapDelete(conns, sw.cur)
    /\ metrics' = SweepMetrics(metrics, sw.curPC)
    /\ deleters' = IF sw.cur \in DOMAIN conns
                   THEN [deleters EXCEPT ![Owner(sw.curPC)] = @ \cup {"sweep"}]
                   ELSE deleters
    /\ sw' = [RangeForget(sw, sw.cur) EXCEPT !.pc = "range", !.cur = EmptyStr,
                                             !.curPC = NoPC]
    /\ UNCHANGED <<hvars, sockvars, pumpvars, bytevars, idSeq, srvvars,
                   issued, stored>>

\* Range has visited every entry that was there throughout: CloseByFilter
\* returns
SweepEnd ==
    /\ sw.pc = "range"
    /\ (sw.start \cap DOMAIN conns) \subseteq sw.visited
    /\ sw' = [SweepIdle EXCEPT !.pc = "returned", !.clean = sw.clean]
    /\ UNCHANGED <<hvars, sockvars, pumpvars, bytevars, regvars, srvvars,
                   histvars>>

(***************************************************************************)
(* StartFileWatcher's loop, event by event.  An fsnotify event carries a   *)
(* set of operations.                                                      *)
(***************************************************************************)
EventOps == {{"Write"}, {"Create"}, {"Chmod"}}

\* event.Op&(fsnotify.Write|fsnotify.Create) != 0
Triggers(op) == op \cap {"Write", "Create"} # {}

\* case event, ok := <-watcher.Events
WatcherReceive(op) ==
    /\ watch.pc = "select"
    /\ watch' = [pc |-> "event", op |-> op, sweeps |-> 0]
    /\ UNCHANGED <<hvars, sockvars, pumpvars, bytevars, regvars, sw,
                   allowedHosts, allowedSNIs, mu, rl, qs, committed,
                   tlsTermination, histvars>>

\* the event is a Write or a Create: cm.CloseByFilter(...)
WatcherTrigger ==
    /\ watch.pc = "event"
    /\ Triggers(watch.op)
    /\ CloseByFilterCall
    /\ watch' = [watch EXCEPT !.pc = "sweep", !.sweeps = @ + 1]
    /\ UNCHANGED <<allowedHosts, allowedSNIs, mu, rl, qs, committed,
                   tlsTermination>>

\* any other event is logged and the loop goes back to its select
WatcherIgnore ==
    /\ watch.pc = "event"
    /\ ~Triggers(watch.op)
    /\ watch' = [watch EXCEPT !.pc = "select"]
    /\ UNCHANGED <<hvars, sockvars, pumpvars, bytevars, regvars, sw,
                   allowedHosts, allowedSNIs, mu, rl, qs, committed,
                   tlsTermination, histvars>>

\* CloseByFilter has returned: the loop goes back to its select
WatcherReturn ==
    /\ watch.pc = "sweep"
    /\ sw.pc = "returned"
    /\ watch' = [watch EXCEPT !.pc = "select"]
    /\ UNCHANGED <<hvars, sockvars, pumpvars, bytevars, regvars, sw,
                   allowedHosts, allowedSNIs, mu, rl, qs, committed,
                   tlsTermination, histvars>>

\* ConnManager.Stats: the Meta of every entry Range visits
Stats == {conns[k].Meta : k \in DOMAIN conns}

(***************************************************************************)
(* RequestFilter under concurrent callers: Reload holds the write lock     *)
(* from its first statement to its return, AllowHTTP and AllowSNI hold the *)
(* read lock.                                                              *)
(***************************************************************************)
ExampleComUpper == <<"E","X","A","M","P","L","E",".","C","O","M">>
EvilTestMixed == <<"E","v","i","l",".","T","e","s","t">>

\* arguments of the queries and of Reload
QueryArgs == {ExampleCom, ExampleComUpper, EvilTest}
ReloadLists == { << >>, <<ExampleCom>>, <<EvilTestMixed>> }

\* more arguments: a Host header with a port, a name that has an allowed
\* name as its suffix, the empty string
ExampleComPort == ExampleCom \o Port80
SubExampleCom == <<"a", ".">> \o ExampleCom
EdgeArgs == QueryArgs \cup {ExampleComPort, SubExampleCom, EmptyStr}
EdgeLists == ReloadLists \cup { <<EmptyStr>> }

\* f.mu.Lock() can be taken
CanLock(m) == ~m.w /\ m.r = 0

\* a read lock that does not wait for the writer
CanRLockUnguarded(m) == TRUE

\* f.mu.RLock() can be taken
CanRLock(m) == ~m.w

\* the set a list of names stands for
TargetSet(l) == {ToLower(l[i]) : i \in 1..Len(l)}

\* f.mu.Lock(); defer f.mu.Unlock()
ReloadLock(hs, ss) ==
    /\ rl.pc = "idle"
    /\ rl.n < MaxReloads
    /\ CanLock(mu)
    /\ mu' = [mu EXCEPT !.w = TRUE]
    /\ rl' = [pc |-> "clear_hosts", hosts |-> hs, snis |-> ss, n |-> rl.n + 1]
    /\ committed' = Append(committed, <<TargetSet(hs), TargetSet(ss)>>)
    /\ UNCHANGED <<hvars, sockvars, pumpvars, bytevars, regvars, sw,
                   allowedHosts, allowedSNIs, qs, tlsTermination, watch, histvars>>

\* f.allowedHosts = map[string]struct{}{}
ReloadClearHosts ==
    /\ rl.pc = "clear_hosts"
    /\ allowedHosts' = {}
    /\ rl' = [rl EXCEPT !.pc = "clear_snis"]
    /\ UNCHANGED <<hvars, sockvars, pumpvars, bytevars, regvars, sw,
                   allowedSNIs, mu, qs, committed, tlsTermination, watch, histvars>>

\* f.allowedSNIs = map[string]struct{}{}
ReloadClearSNIs ==
    /\ rl.pc = "clear_snis"
    /\ allowedSNIs' = {}
    /\ rl' = [rl EXCEPT !.pc = "fill"]
    /\ UNCHANGED <<hvars, sockvars, pumpvars, bytevars, regvars, sw,
                   allowedHosts, mu, qs, committed, tlsTermination, watch, histvars>>

\* for _, h := range hosts { f.allowedHosts[strings.ToLower(h)] = struct{}{} }
ReloadAddHost ==
    /\ rl.pc = "fill"
    /\ rl.hosts # << >>
    /\ allowedHosts' = allowedHosts \cup {ToLower(Head(rl.hosts))}
    /\ rl' = [rl EXCEPT !.hosts = Tail(@)]
    /\ UNCHANGED <<hvars, sockvars, pumpvars, bytevars, regvars, sw,
                   allowedSNIs, mu, qs, committed, tlsTermination, watch, histvars>>

\* for _, s := range snis { f.allowedSNIs[strings.ToLower(s)] = struct{}{} }
ReloadAddSNI ==
    /\ rl.pc = "fill"
    /\ rl.hosts = << >>
    /\ rl.snis # << >>
    /\ allowedSNIs' = allowedSNIs \cup {ToLower(Head(rl.snis))}
    /\ rl' = [rl EXCEPT !.snis = Tail(@)]
    /\ UNCHANGED <<hvars, sockvars, pumpvars, bytevars, regvars, sw,
                   allowedHosts, mu, qs, committed, tlsTermination, watch, histvars>>

\* return nil: the deferred f.mu.Unlock()
ReloadUnlock ==
    /\ rl.pc = "fill"
    /\ rl.hosts = << >>
    /\ rl.snis = << >>
    /\ mu' = [mu EXCEPT !.w = FALSE]
    /\ rl' = [rl EXCEPT !.pc = "idle"]
    /\ UNCHANGED <<hvars, sockvars, pumpvars, bytevars, regvars, sw,
                   allowedHosts, allowedSNIs, qs, committed, tlsTermination, watch,
                   histvars>>

\* AllowHTTP / AllowSNI: f.mu.RLock(); defer f.mu.RUnlock()
QueryLock(i, fn, arg) ==
    /\ qs[i].pc \in {"idle", "done"}
    /\ CanRLock(mu)
    /\ mu' = [mu EXCEPT !.r = @ + 1]
    /\ qs' = [qs EXCEPT ![i] = [QueryIdle EXCEPT !.pc = "locked", !.fn = fn,
                                                  !.arg = arg,
                                                  !.from = Len(committed)]]
    /\ UNCHANGED <<hvars, sockvars, pumpvars, bytevars, regvars, sw,
                   allowedHosts, allowedSNIs, rl, committed, tlsTermination, watch,
                   histvars>>

\* the lookup in the map
QueryRead(i) ==
    /\ qs[i].pc = "locked"
    /\ qs' = [qs EXCEPT ![i].pc = "read",
                        ![i].res = IF qs[i].fn = "http"
                                   THEN AllowHTTP(allowedHosts, qs[i].arg)
                                   ELSE AllowSNI(allowedSNIs, qs[i].arg),
                        ![i].view = <<allowedHosts, allowedSNIs>>]
    /\ UNCHANGED <<hvars, sockvars, pumpvars, bytevars, regvars, sw,
                   allowedHosts, allowedSNIs, mu, rl, committed,
                   tlsTermination, watch, histvars>>

\* return: the deferred f.mu.RUnlock()
QueryUnlock(i) ==
    /\ qs[i].pc = "read"
    /\ mu' = [mu EXCEPT !.r = @ - 1]
    /\ qs' = [qs EXCEPT ![i].pc = "done"]
    /\ UNCHANGED <<hvars, sockvars, pumpvars, bytevars, regvars, sw,
                   allowedHosts, allowedSNIs, rl, committed, tlsTermination, watch,
                   histvars>>

(***************************************************************************)
(* The proxy.                                                              *)
(***************************************************************************)
Next ==
    \/ \E h \in Handlers : AcceptHTTP(h)
    \/ \E h \in Handlers : AcceptTLS(h)
    \/ \E h \in Handlers : HTTPFilter(h)
    \/ \E h \in Handlers : HTTPHijack(h)
    \/ \E h \in Handlers : HTTPDial(h)
    \/ \E h \in Handlers : AddNextID(h)
    \/ \E h \in Handlers : AddStore(h)
    \/ \E h \in Handlers : AddMetrics(h)
    \/ \E h \in Handlers : HTTPForward(h)
    \/ \E h \in Handlers : TLSStartPump(h)
    \/ \E h \in Handlers : CopyClientData(h)
    \/ \E h \in Handlers, d \in {"cs", "sc"} : CopyEOF(h, d)
    \/ \E h \in Handlers, d \in {"cs", "sc"} : CopyClosed(h, d)
    \/ \E h \in Handlers, d \in {"cs", "sc"} : CopyWriteError(h, d)
    \/ \E h \in Handlers : Wait(h)
    \/ \E h \in Handlers, n \in ChunkSizes : ClientSend(h, n)
    \/ \E h \in Handlers : CCPLoad(h)
    \/ \E h \in Handlers : CCPCloseClient(h)
    \/ \E h \in Handlers : CCPCloseServer(h)
    \/ \E h \in Handlers : RmLoad(h)
    \/ \E h \in Handlers : RmDelete(h)
    \/ \E h \in Handlers : RmMetrics(h)
    \/ \E h \in Handlers : TLSPeekFill(h)
    \/ \E h \in Handlers : TLSPeekDone(h)
    \/ \E h \in Handlers : TLSPeekFail(h)
    \/ \E h \in Handlers : TLSDial(h)
    \/ \E h \in Handlers : TLSDeferServer(h)
    \/ \E h \in Handlers : TLSDeferClient(h)
    \/ SweepBegin
    \/ \E k \in DOMAIN conns : SweepVisit(k)
    \/ SweepWriteClient
    \/ SweepWriteServer
    \/ SweepCloseClient
    \/ SweepCloseServer
    \/ SweepDelete
    \/ SweepEnd

Spec == Init /\ [][Next]_vars

\* The handlers alone, in both TLS modes: no watcher event arrives.
InitHandlers ==
    /\ InitCommon
    /\ tlsTermination \in BOOLEAN
    /\ helloNames = {EvilTest}
    /\ segs = {PeekLen}
    /\ cLeft = [h \in Handlers |-> PeekLen]

NextHandlers ==
    \/ \E h \in Handlers : AcceptHTTP(h)
    \/ \E h \in Handlers : AcceptTLS(h)
    \/ \E h \in Handlers : HTTPFilter(h)
    \/ \E h \in Handlers : HTTPHijack(h)
    \/ \E h \in Handlers : HTTPDial(h)
    \/ \E h \in Handlers : AddNextID(h)
    \/ \E h \in Handlers : AddStore(h)
    \/ \E h \in Handlers : AddMetrics(h)
    \/ \E h \in Handlers : HTTPForward(h)
    \/ \E h \in Handlers : TLSStartPump(h)
    \/ \E h \in Handlers : CopyClientData(h)
    \/ \E h \in Handlers, d \in {"cs", "sc"} : CopyEOF(h, d)
    \/ \E h \in Handlers : Wait(h)
    \/ \E h \in Handlers, n \in ChunkSizes : ClientSend(h, n)
    \/ \E h \in Handlers : CCPLoad(h)
    \/ \E h \in Handlers : CCPCloseClient(h)
    \/ \E h \in Handlers : CCPCloseServer(h)
    \/ \E h \in Handlers : RmLoad(h)
    \/ \E h \in Handlers : RmDelete(h)
    \/ \E h \in Handlers : RmMetrics(h)
    \/ \E h \in Handlers : TLSPeekFill(h)
    \/ \E h \in Handlers : TLSPeekDone(h)
    \/ \E h \in Handlers : TLSPeekFail(h)
    \/ \E h \in Handlers : TLSDial(h)
    \/ \E h \in Handlers : TLSDeferServer(h)
    \/ \E h \in Handlers : TLSDeferClient(h)

SpecHandlers == InitHandlers /\ [][NextHandlers]_vars

\* The TLS front door alone, in both modes, with clients that send up to
\* MaxClientBytes bytes in segments of the sizes in ChunkSizes.
InitTLS ==
    /\ InitCommon
    /\ tlsTermination \in BOOLEAN
    /\ helloNames = ClientNames
    /\ segs = ChunkSizes
    /\ cLeft = [h \in Handlers |-> MaxClientBytes]

NextTLS ==
    \/ \E h \in Handlers : AcceptTLS(h)
    \/ \E h \in Handlers : AddNextID(h)
    \/ \E h \in Handlers : AddStore(h)
    \/ \E h \in Handlers : AddMetrics(h)
    \/ \E h \in Handlers : TLSStartPump(h)
    \/ \E h \in Handlers : CopyClientData(h)
    \/ \E h \in Handlers, d \in {"cs", "sc"} : CopyEOF(h, d)
    \/ \E h \in Handlers : Wait(h)
    \/ \E h \in Handlers, n \in ChunkSizes : ClientSend(h, n)
    \/ \E h \in Handlers : RmLoad(h)
    \/ \E h \in Handlers : RmDelete(h)
    \/ \E h \in Handlers : RmMetrics(h)
    \/ \E h \in Handlers : TLSPeekFill(h)
    \/ \E h \in Handlers : TLSPeekDone(h)
    \/ \E h \in Handlers : TLSPeekFail(h)
    \/ \E h \in Handlers : TLSDial(h)
    \/ \E h \in Handlers : TLSDeferServer(h)
    \/ \E h \in Handlers : TLSDeferClient(h)

SpecTLS == InitTLS /\ [][NextTLS]_vars

\* The filter alone, with its concurrent callers.
InitFilter ==
    /\ InitCommon
    /\ tlsTermination = TRUE
    /\ helloNames = {EvilTest}
    /\ segs = {PeekLen}
    /\ cLeft = [h \in Handlers |-> PeekLen]

NextFilter ==
    \/ \E hs \in ReloadLists, ss \in ReloadLists : ReloadLock(hs, ss)
    \/ ReloadClearHosts
    \/ ReloadClearSNIs
    \/ ReloadAddHost
    \/ ReloadAddSNI
    \/ ReloadUnlock
    \/ \E i \in Queries, fn \in {"http", "sni"}, arg \in QueryArgs :
          QueryLock(i, fn, arg)
    \/ \E i \in Queries : QueryRead(i)
    \/ \E i \in Queries : QueryUnlock(i)

SpecFilter == InitFilter /\ [][NextFilter]_vars

\* The filter with one caller at a time and the wider arguments.
NextEdge ==
    \/ \E hs \in EdgeLists, ss \in EdgeLists : ReloadLock(hs, ss)
    \/ ReloadClearHosts
    \/ ReloadClearSNIs
    \/ ReloadAddHost
    \/ ReloadAddSNI
    \/ ReloadUnlock
    \/ \E fn \in {"http", "sni"}, arg \in EdgeArgs : QueryLock(1, fn, arg)
    \/ QueryRead(1)
    \/ QueryUnlock(1)

SpecEdge == InitFilter /\ [][NextEdge]_vars

(***************************************************************************)
(* Properties.                                                             *)
(***************************************************************************)
Finished(h) == pc[h] \in {"idle", "done"}

\* C1: when CloseByFilter with the always-true predicate has returned, no Add
\* ran concurrently with it, and every handler has finished, Stats() is
\* empty and the five counters are zero.
C1_SweepLeavesNothing ==
    (sw.pc = "returned" /\ sw.clean /\ \A h \in Handlers : Finished(h))
        => (Stats = {} /\ metrics = ZeroMetrics)

\* an Add or a Remove is between its first and its last shared-memory step
InAddOrRemove(h) ==
    pc[h] \in {"add_store", "add_metrics", "rm_delete", "rm_metrics"}

Quiescent == \A h \in Handlers : ~InAddOrRemove(h)

EntriesWhere(P(_)) == Cardinality({k \in DOMAIN conns : P(conns[k].Meta)})

IsAny(m) == TRUE
IsHTTPS(m) == HasPrefix(m.Protocol, HttpsPrefix)
IsOther(m) == ~IsHTTPS(m)
HasHAProxy(m) == m.HAProxyAddr # EmptyStr

\* C2: with only Add and Remove at work, once no operation is in progress
\* ClientProxyConns and ProxyServerConns equal the number of entries,
\* HTTPSConnCount the number of entries whose protocol starts with "https",
\* HTTPConnCount the number of the others, and ProxyHAProxyConns the number
\* of entries with a non-empty HAProxyAddr.
C2_CountersMatchRegistry ==
    Quiescent =>
        /\ metrics.ClientProxyConns = EntriesWhere(IsAny)
        /\ metrics.ProxyServerConns = EntriesWhere(IsAny)
        /\ metrics.HTTPSConnCount = EntriesWhere(IsHTTPS)
        /\ metrics.HTTPConnCount = EntriesWhere(IsOther)
        /\ metrics.ProxyHAProxyConns = EntriesWhere(HasHAProxy)

\* C2's case: an HTTP and a TLS-termination connection are registered, one
\* more was registered and removed, and nothing is in progress
C2_Witness ==
    /\ Quiescent
    /\ EntriesWhere(IsHTTPS) = 1
    /\ EntriesWhere(IsOther) = 1
    /\ EntriesWhere(HasHAProxy) = 1

\* C3: in both TLS modes the client side of a registered TLS connection is
\* the wrapped stream, and what the upstream has received is the client's
\* byte sequence from byte 0 on, without a gap.
C3_UpstreamGetsStreamFromByteZero ==
    \A h \in Handlers :
        kind[h] = "tls" =>
            /\ \A k \in DOMAIN conns :
                   Owner(conns[k]) = h => conns[k].Client.wrapped
            /\ \/ upRecv[h] = << >>
               \/ Len(upRecv[h]) = 1 /\ upRecv[h][1][1] = 0

\* C4: a TLS connection whose ClientHello names a server that the SNI
\* allowlist does not hold is never dialled upstream and never registered.
C4_DeniedSNINotDialled ==
    \A h \in Handlers :
        (kind[h] = "tls" /\ pc[h] # "idle" /\ ~AllowSNI(allowedSNIs, name[h]))
            => /\ dialTarget[h] = EmptyStr
               /\ meta[h].ID \notin DOMAIN stored
               /\ \A k \in DOMAIN conns : Owner(conns[k]) # h

\* the handler has left the pump and has not returned yet
AfterPump(h) ==
    pc[h] \in {"ccp_load", "ccp_close_c", "ccp_close_s", "rm_load",
               "rm_delete", "rm_metrics", "t_defer_s", "t_defer_c"}

\* the steps of a handler between the pump and its return
CleanupStep(h) ==
    \/ CCPLoad(h)
    \/ CCPCloseClient(h)
    \/ CCPCloseServer(h)
    \/ RmLoad(h)
    \/ RmDelete(h)
    \/ RmMetrics(h)
    \/ TLSDeferServer(h)
    \/ TLSDeferClient(h)

\* how many steps a handler is from its return, at most
StepsLeft(p) ==
    CASE p = "ccp_load" -> 8
      [] p = "ccp_close_c" -> 7
      [] p = "ccp_close_s" -> 6
      [] p = "rm_load" -> 5
      [] p = "rm_delete" -> 4
      [] p = "rm_metrics" -> 3
      [] p = "t_defer_s" -> 2
      [] p = "t_defer_c" -> 1
      [] OTHER -> 0

Registered(h) == connId[h] # EmptyStr

C5_AtReturn ==
    \A h \in Handlers :
        (pc[h] = "done" /\ Registered(h)) =>
            /\ connId[h] \notin DOMAIN conns
            /\ Cardinality(deleters[h]) = 1
            /\ closed[h].c
            /\ closed[h].s

C5_NeverStuck == \A h \in Handlers : AfterPump(h) => ENABLED CleanupStep(h)

C5_Advances ==
    \A h \in Handlers :
        (AfterPump(h) /\ pc'[h] # pc[h]) => StepsLeft(pc'[h]) < StepsLeft(pc[h])

\* C5: when CloseByFilter races with a handler that has left its pump, the
\* entry is deleted by exactly one of the two, the other finds the id absent
\* and goes on, both streams are closed when the handler returns, and the
\* handler returns: each of its remaining steps can be taken whatever the
\* sweep does, and each brings it closer to its return.
C5_RaceRemovesOnce ==
    /\ [](C5_AtReturn /\ C5_NeverStuck)
    /\ [][C5_Advances]_vars

\* C5's case: the handler, out of its pump, had loaded its entry when the
\* sweep deleted it; the handler's own Delete found the id absent, and the
\* handler went on and returned
C5_Witness ==
    \E h \in Handlers :
        /\ pc[h] = "done"
        /\ Registered(h)
        /\ deleters[h] = {"sweep"}
        /\ rmPC[h] # NoPC

\* C6: no counter is ever negative, whatever the interleaving of Add, Remove
\* and the sweeps.
C6_CountersNonNegative ==
    /\ metrics.ClientProxyConns >= 0
    /\ metrics.ProxyServerConns >= 0
    /\ metrics.ProxyHAProxyConns >= 0
    /\ metrics.HTTPConnCount >= 0
    /\ metrics.HTTPSConnCount >= 0

\* C6's case: one connection was deleted by a sweep and one by its handler's
\* Remove, which has taken its deltas back
C6_Witness ==
    /\ \E h \in Handlers : deleters[h] = {"sweep"} /\ pc[h] = "done"
    /\ \E h \in Handlers : deleters[h] = {"handler"} /\ pc[h] = "done"
    /\ sw.pc = "returned"

IsDigit(c) == \E i \in 1..10 : DigitChars[i] = c

\* conn-<n>: the prefix, then a decimal number without a leading zero
WellFormedID(id) ==
    /\ HasPrefix(id, ConnPrefix)
    /\ Len(id) > Len(ConnPrefix)
    /\ \A i \in (Len(ConnPrefix) + 1)..Len(id) : IsDigit(id[i])
    /\ id[Len(ConnPrefix) + 1] # "0"

\* C7: the numbers NextID hands out are strictly increasing in the order of
\* the increments, the ids of different handlers are distinct and of the
\* form conn-<n>, and no id is stored in the registry twice.
C7_IDsUnique ==
    /\ \A i, j \in 1..Len(issued) : i < j => issued[i] < issued[j]
    /\ \A h, g \in Handlers :
           (h # g /\ meta[h].ID # EmptyStr /\ meta[g].ID # EmptyStr)
               => meta[h].ID # meta[g].ID
    /\ \A h \in Handlers : meta[h].ID # EmptyStr => WellFormedID(meta[h].ID)
    /\ \A k \in DOMAIN stored : stored[k] = 1

\* C7's case: two ids were handed out, the first was stored and removed
\* again, the second is in the registry
C7_Witness ==
    /\ Len(issued) = 2
    /\ Cardinality(DOMAIN stored) = 2
    /\ Cardinality(DOMAIN conns) = 1
    /\ FormatID(issued[2]) \in DOMAIN conns

\* what a query answers against a pair of sets
AnswerAgainst(q, pair) ==
    IF q.fn = "http" THEN AllowHTTP(pair[1], q.arg)
    ELSE AllowSNI(pair[2], q.arg)

\* the pairs a query may see: the one in force when it took the read lock
\* and the one of the Reload that follows it
PairsFor(q) == {j \in {q.from, q.from + 1} : j <= Len(committed)}

\* C8: whatever the interleaving of Reload with the queries, each query has
\* seen one complete pair of sets, the one before or the one after the
\* Reload, and its answer is the answer against that pair.
C8_NoTornView ==
    \A i \in Queries :
        qs[i].pc \in {"read", "done"} =>
            \E j \in PairsFor(qs[i]) :
                /\ qs[i].view = committed[j]
                /\ qs[i].res = AnswerAgainst(qs[i], committed[j])

\* C8's case: one query waits with the read lock taken before a Reload
\* that is now pending or done, another has answered after a Reload that
\* replaced both sets, against the new pair
C8_Witness ==
    \E i, k \in Queries :
        /\ qs[i].pc = "done"
        /\ qs[i].from = 2
        /\ qs[i].arg = EvilTest
        /\ qs[i].res
        /\ committed[2] = << {EvilTest}, {EvilTest} >>
        /\ qs[k].pc = "done"
        /\ qs[k].from = 1
        /\ qs[k].arg = EvilTest
        /\ ~qs[k].res

Other(d) == IF d = "cs" THEN "sc" ELSE "cs"

\* the pump is at work for handler h: a copy direction is running
Pumping(h) == copy[h].cs = "running" \/ copy[h].sc = "running"

C9_WaitsForBoth == \A h \in Handlers : Pumping(h) => pc[h] = "wait"

C9_PumpStep ==
    \A h \in Handlers :
        /\ (pc[h] = "wait" /\ pc'[h] # "wait")
               => (copy[h].cs = "done" /\ copy[h].sc = "done"
                      /\ closed'[h] = closed[h])
        /\ \A d \in {"cs", "sc"} :
               (copy[h][d] = "running" /\ copy'[h][d] = "done")
                   => (copy'[h][Other(d)] = copy[h][Other(d)]
                          /\ closed'[h] = closed[h])
        /\ upRecv'[h] # upRecv[h] => closed'[h] = closed[h]

\* C9: the handler passes its wait only when both copy directions have
\* finished; the step that ends one direction leaves the other as it was;
\* and no step of the pump closes a stream.
C9_PumpWaitsForBoth == []C9_WaitsForBoth /\ [][C9_PumpStep]_vars

\* C9's case: one direction has ended, the other is still running with both
\* sockets open, and the handler waits
C9_Witness ==
    \E h \in Handlers :
        /\ pc[h] = "wait"
        /\ copy[h].sc = "done"
        /\ copy[h].cs = "running"
        /\ ~closed[h].c
        /\ ~closed[h].s

\* the upstream dial of the HTTP front door has failed and the handler has
\* returned
HTTPDialFailed(h) ==
    /\ kind[h] = "http"
    /\ pc[h] = "done"
    /\ dialTarget[h] # EmptyStr
    /\ meta[h] = ZeroMeta

\* C10: when the upstream dial of the HTTP front door fails, the client has
\* received a 502 once its connection is closed, no registry entry was
\* created and the counters are as if the connection had never come.
C10_DialFailureSends502 ==
    \A h \in Handlers :
        HTTPDialFailed(h) =>
            /\ resp[h] = "502"
            /\ closed[h].c
            /\ \A k \in DOMAIN conns : Owner(conns[k]) # h
            /\ (\A g \in Handlers \ {h} : pc[g] = "idle")
                   => metrics = ZeroMetrics

\* the body that came with the status the client received
ClientBody(h) ==
    IF resp[h] = "403" THEN HTTPErrorBody(BlockedMsg) ELSE EmptyStr

\* the filter denies the Host of handler h's request
HostDenied(h) ==
    /\ kind[h] = "http"
    /\ pc[h] # "idle"
    /\ ToLower(name[h]) \notin allowedHosts

\* C11: when the filter denies the Host of an HTTP request, the handler
\* returns with 403 and the body "Blocked by proxy filter" (http.Error ends
\* it with a line end) sent to the client; the socket is not hijacked, no
\* upstream is dialled, nothing is registered and no counter changes.
C11_DenyAnswers403 ==
    \A h \in Handlers :
        HostDenied(h) =>
            /\ pc[h] \in {"h_filter", "done"}
            /\ pc[h] = "done" => /\ resp[h] = "403"
                                 /\ HasPrefix(ClientBody(h), BlockedMsg)
                                 /\ Len(ClientBody(h)) = Len(BlockedMsg) + 1
            /\ ~hijacked[h]
            /\ ~closed[h].c
            /\ dialTarget[h] = EmptyStr
            /\ meta[h] = ZeroMeta
            /\ \A k \in DOMAIN conns : Owner(conns[k]) # h
            /\ (\A g \in Handlers \ {h} : pc[g] = "idle")
                   => (metrics = ZeroMetrics /\ idSeq = 0)

\* C11's case: a request for evil.test was denied and answered
C11_Witness ==
    \E h \in Handlers :
        /\ HostDenied(h)
        /\ name[h] = EvilTest
        /\ pc[h] = "done"
        /\ resp[h] = "403"

\* C12: Stats() never holds an entry whose increments Add has not applied
\* yet: the counters cover every entry Stats() can return.
C12_IncrementsBeforeVisible ==
    /\ \A k \in DOMAIN conns : pc[Owner(conns[k])] # "add_metrics"
    /\ Cardinality(Stats) <= metrics.ClientProxyConns

\* The proxy with its watcher in either TLS mode, every TLS client sending
\* one ClientHello segment.  A handler whose next step does not wait for a
\* peer takes it: the Go scheduler runs every runnable goroutine, and an
\* operation on a socket this process closed returns at once.  No step of a
\* peer (sending, closing its end) is assumed to happen.
InitForced ==
    /\ InitCommon
    /\ tlsTermination \in BOOLEAN
    /\ helloNames = {EvilTest}
    /\ segs = {PeekLen}
    /\ cLeft = [h \in Handlers |-> PeekLen]

\* the steps of handler h that wait for no peer
OwnStep(h) ==
    \/ AddNextID(h)
    \/ AddStore(h)
    \/ AddMetrics(h)
    \/ HTTPForward(h)
    \/ TLSStartPump(h)
    \/ CopyClientData(h)
    \/ \E d \in {"cs", "sc"} : CopyClosed(h, d)
    \/ \E d \in {"cs", "sc"} : CopyWriteError(h, d)
    \/ Wait(h)
    \/ CleanupStep(h)

\* the proxy and its watcher while no peer closes its end; the
\* connections arrive at the HTTP and at the TLS listener in turn
NextForced ==
    \/ \E h \in Handlers : h % 2 = 1 /\ AcceptHTTP(h)
    \/ \E h \in Handlers : h % 2 = 0 /\ AcceptTLS(h)
    \/ \E h \in Handlers, n \in ChunkSizes : ClientSend(h, n)
    \/ \E h \in Handlers : HTTPFilter(h)
    \/ \E h \in Handlers : HTTPHijack(h)
    \/ \E h \in Handlers : HTTPDial(h)
    \/ \E h \in Handlers : TLSPeekFill(h)
    \/ \E h \in Handlers : TLSPeekDone(h)
    \/ \E h \in Handlers : TLSDial(h)
    \/ \E h \in Handlers : OwnStep(h)
    \/ SweepBegin
    \/ \E k \in DOMAIN conns : SweepVisit(k)
    \/ SweepWriteClient
    \/ SweepWriteServer
    \/ SweepCloseClient
    \/ SweepCloseServer
    \/ SweepDelete
    \/ SweepEnd

SpecForced ==
    /\ InitForced
    /\ [][NextForced]_vars
    /\ \A h \in Handlers : WF_vars(OwnStep(h))

\* CloseByFilter has just closed both sockets of handler h's connection
SweepClosedBoth(h) ==
    /\ sw.pc = "delete"
    /\ Owner(sw.curPC) = h
    /\ closed[h].c
    /\ closed[h].s

PumpOver(h) == copy[h].cs # "running" /\ copy[h].sc # "running"

\* C13: once CloseByFilter has closed both sockets of a registered
\* connection, both copy directions of its pump finish and the handler
\* returns, with no step of a peer needed.
C13_ForcedCloseCancels ==
    \A h \in Handlers :
        SweepClosedBoth(h) ~> (pc[h] = "done" /\ PumpOver(h))

\* C13's case: the sweep closed both sockets while both copy directions
\* were running, and the handler has returned
C13_Witness ==
    \E h \in Handlers :
        /\ pc[h] = "done"
        /\ deleters[h] = {"sweep"}
        /\ rmPC[h] = NoPC
        /\ PumpOver(h)
        /\ copy[h].cs = "done"

\* the position of the last ":" of s, 0 if there is none
RECURSIVE LastColon(_, _)
LastColon(s, i) ==
    IF i = 0 THEN 0
    ELSE IF s[i] = ":" THEN i
    ELSE LastColon(s, i - 1)

\* the host part of an authority: a trailing :port is removed
HostPart(s) ==
    LET c == LastColon(s, Len(s)) IN
        IF c > 0 /\ c < Len(s) /\ \A i \in (c + 1)..Len(s) : IsDigit(s[i])
        THEN SubSeq(s, 1, c - 1)
        ELSE s

Answered(q) == q.pc \in {"read", "done"}

\* C14: AllowHTTP answers true exactly when the host part of its argument,
\* lowercased, is in the HTTP allowlist, AllowSNI exactly when its lowercased
\* argument is in the SNI allowlist.
C14_ExactNormalisedMatch ==
    \A i \in Queries :
        Answered(qs[i]) =>
            qs[i].res = IF qs[i].fn = "http"
                        THEN ToLower(HostPart(qs[i].arg)) \in qs[i].view[1]
                        ELSE ToLower(qs[i].arg) \in qs[i].view[2]

\* C15: AllowHTTP("") and AllowSNI("") answer false in every state of the
\* filter, also after a Reload whose lists hold the empty string.
C15_EmptyDenied ==
    \A i \in Queries :
        (Answered(qs[i]) /\ qs[i].arg = EmptyStr) => ~qs[i].res

\* The watcher's loop with the HTTP front door.
NextWatcher ==
    \/ \E op \in EventOps : WatcherReceive(op)
    \/ WatcherTrigger
    \/ WatcherIgnore
    \/ WatcherReturn
    \/ \E k \in DOMAIN conns : SweepVisit(k)
    \/ SweepWriteClient
    \/ SweepWriteServer
    \/ SweepCloseClient
    \/ SweepCloseServer
    \/ SweepDelete
    \/ SweepEnd
    \/ \E h \in Handlers : AcceptHTTP(h)
    \/ \E h \in Handlers : HTTPFilter(h)
    \/ \E h \in Handlers : HTTPHijack(h)
    \/ \E h \in Handlers : HTTPDial(h)
    \/ \E h \in Handlers : AddNextID(h)
    \/ \E h \in Handlers : AddStore(h)
    \/ \E h \in Handlers : AddMetrics(h)
    \/ \E h \in Handlers : HTTPForward(h)
    \/ \E h \in Handlers, d \in {"cs", "sc"} : CopyEOF(h, d)
    \/ \E h \in Handlers, d \in {"cs", "sc"} : CopyClosed(h, d)
    \/ \E h \in Handlers, d \in {"cs", "sc"} : CopyWriteError(h, d)
    \/ \E h \in Handlers : Wait(h)
    \/ \E h \in Handlers : CCPLoad(h)
    \/ \E h \in Handlers : CCPCloseClient(h)
    \/ \E h \in Handlers : CCPCloseServer(h)
    \/ \E h \in Handlers : RmLoad(h)
    \/ \E h \in Handlers : RmDelete(h)
    \/ \E h \in Handlers : RmMetrics(h)

SpecWatcher == InitFilter /\ [][NextWatcher]_vars

\* the watcher has handled an event and is back in its select
EventHandled == watch.pc = "select" /\ watch.op # {}

\* C16: every event the watcher receives causes exactly one sweep: when the
\* watcher has handled an event it has called CloseByFilter once for it, and
\* it never calls it twice for one event.
C16_OneSweepPerEvent ==
    /\ watch.sweeps <= 1
    /\ EventHandled => watch.sweeps = 1

CRLF == <<"\r", "\n">>

\* the preamble as the specification spells it
StatedPreamble ==
    <<"H","T","T","P","/","1",".","1"," ","2","0","0"," ","O","K">> \o CRLF
    \o <<"C","o","n","n","e","c","t","i","o","n",":"," ","c","l","o","s","e">>
    \o CRLF \o CRLF

\* the handler whose entry the sweep is working on
Swept == Owner(sw.curPC)

C17_State ==
    /\ PreambleText = StatedPreamble
    \* a preamble that did not arrive was written to a socket already closed
    /\ sw.pc \in {"w_server", "c_client"}
           => (preamble[Swept].c \/ closed[Swept].c)
    /\ sw.pc = "c_client" => (preamble[Swept].s \/ closed[Swept].s)
    \* the entry is there until both streams are closed
    /\ \A h \in Handlers : "sweep" \in deleters[h] => (closed[h].c /\ closed[h].s)

C17_Step ==
    /\ sw.pc = "w_client" =>
           /\ sw'.pc \in {"w_client", "w_server"}
           /\ sw'.pc = "w_server" => closed' = closed /\ deleters' = deleters
    /\ sw.pc = "w_server" =>
           /\ sw'.pc \in {"w_server", "c_client"}
           /\ sw'.pc = "c_client" => closed' = closed /\ deleters' = deleters
    /\ sw.pc = "c_client" =>
           /\ sw'.pc \in {"c_client", "c_server"}
           /\ sw'.pc = "c_server" => closed'[Swept].c /\ deleters' = deleters
    /\ sw.pc = "c_server" =>
           /\ sw'.pc \in {"c_server", "delete"}
           /\ sw'.pc = "delete" => closed'[Swept].s /\ deleters' = deleters
    /\ sw.pc = "delete" =>
           /\ sw'.pc \in {"delete", "range"}
           /\ sw'.pc = "range" => sw.cur \notin DOMAIN conns'
    \* no stream is closed by the sweep before both writes were attempted
    /\ (sw.pc \in {"range", "w_client", "w_server"} /\ sw' # sw)
           => closed' = closed

\* C17: for an entry CloseByFilter matches, the preamble is written to the
\* client and to the upstream, then the client and the upstream are closed,
\* then the entry is deleted; no stream is closed by the sweep before both
\* writes were attempted, and a write that fails (the socket was closed
\* already) stops neither the closes nor the deletion.
C17_SweepOrder == []C17_State /\ [][C17_Step]_vars

\* C17's case: the write to the client failed, its socket being closed by
\* the handler already, the write to the upstream arrived, and the sweep
\* has gone on to close both and is about to delete the entry
C17_Witness ==
    /\ sw.pc = "delete"
    /\ ~preamble[Swept].c
    /\ preamble[Swept].s
    /\ closed[Swept].c
    /\ closed[Swept].s

C18_Dial ==
    \A h \in Handlers :
        (kind[h] = "tls" /\ dialTarget[h] # EmptyStr) =>
            IF tlsTermination
            THEN dialTarget[h] = HAProxyAddress
            ELSE dialTarget[h] = sni[h] \o Port443

C18_Entry(h, m) ==
    /\ (kind[h] = "tls" /\ tlsTermination)
           => (m.Protocol = ProtoTermination /\ m.HAProxyAddr = HAProxyAddress
               /\ m.ServerAddr = dialTarget[h])
    /\ (kind[h] = "tls" /\ ~tlsTermination)
           => (m.Protocol = ProtoPassthrough /\ m.HAProxyAddr = EmptyStr
               /\ m.ServerAddr = dialTarget[h])
    /\ kind[h] = "http" => (m.Protocol = ProtoHTTP /\ m.HAProxyAddr = EmptyStr)
    /\ m.HAProxyAddr # EmptyStr => m.Protocol = ProtoTermination

\* C18: in termination mode the TLS front door dials the configured back end
\* only and registers the terminated protocol with HAProxyAddr set to that
\* address; in passthrough mode it dials sni:443 and registers with an empty
\* HAProxyAddr; an entry has a HAProxyAddr only if its protocol is the
\* terminated one, and an HTTP entry has none.
C18_ModeDecidesMeta ==
    /\ C18_Dial
    /\ \A k \in DOMAIN conns : C18_Entry(Owner(conns[k]), conns[k].Meta)

\* C18's case: a terminated and an HTTP connection are registered
C18_Witness ==
    /\ tlsTermination
    /\ \E k \in DOMAIN conns : conns[k].Meta.HAProxyAddr = HAProxyAddress
    /\ \E k \in DOMAIN conns : conns[k].Meta.Protocol = ProtoHTTP

\* C18's other case: a passthrough connection is registered
C18_WitnessPassthrough ==
    /\ ~tlsTermination
    /\ \E k \in DOMAIN conns : conns[k].Meta.Protocol = ProtoPassthrough

\* handler h takes the step of Remove, or of its caller, that leaves p
Leaves(h, p) == pc[h] = p /\ pc'[h] # p

StreamsUntouched == closed' = closed /\ preamble' = preamble /\ upRecv' = upRecv

C19_Step ==
    \A h \in Handlers :
        \* the Load: nothing changes, and Remove returns if the id is absent
        /\ Leaves(h, "rm_load") =>
               /\ conns' = conns
               /\ metrics' = metrics
               /\ StreamsUntouched
               /\ connId[h] \notin DOMAIN conns
                      => pc'[h] \notin {"rm_delete", "rm_metrics"}
        \* the Delete: this entry goes, every other entry stays as it is
        /\ Leaves(h, "rm_delete") =>
               /\ DOMAIN conns' = DOMAIN conns \ {connId[h]}
               /\ \A k \in DOMAIN conns' : conns'[k] = conns[k]
               /\ metrics' = metrics
               /\ StreamsUntouched
        \* the decrements: the inverse of what Add did for this entry
        /\ Leaves(h, "rm_metrics") =>
               /\ conns' = conns
               /\ StreamsUntouched
               /\ metrics'.ClientProxyConns = metrics.ClientProxyConns - 1
               /\ metrics'.ProxyServerConns = metrics.ProxyServerConns - 1
               /\ metrics'.HTTPConnCount + metrics'.HTTPSConnCount
                      = metrics.HTTPConnCount + metrics.HTTPSConnCount - 1
               /\ metrics'.ProxyHAProxyConns = metrics.ProxyHAProxyConns
                      - (IF rmPC[h].Meta.HAProxyAddr # EmptyStr THEN 1 ELSE 0)

\* C19: Remove of an id that is not in the registry changes neither the
\* registry nor a counter; Remove of a present id deletes that entry and
\* leaves every other entry as it is; no step of Remove closes a stream or
\* writes to one.
C19_RemoveFrame == [][C19_Step]_vars

\* C19's case: a handler's Remove has deleted its entry and taken its
\* deltas back while the other connection's entry is still there, as it was
C19_Witness ==
    \E h, g \in Handlers :
        /\ h # g
        /\ deleters[h] = {"handler"}
        /\ pc[h] = "done"
        /\ Registered(g)
        /\ connId[g] \in DOMAIN conns
        /\ conns[connId[g]].Meta = meta[g]
        /\ metrics.ClientProxyConns = 1

(***************************************************************************)
(* Reading the wrapped connection with reads of any size:                  *)
(* connWithBufferedReader.Read is bufio.Reader.Read.                       *)
(***************************************************************************)
\* sizes of the slices a reader passes to Read
ReadSizes == {256, 4096}

\* a wrapper whose Read goes to the socket and never to the bufio.Reader
ReadsSocketOnly(h) == FALSE

\* c.reader.Read(b) serves the bytes the bufio.Reader holds, if any
ReadsBufferFirst(h) == Buffered(h) > 0

\* one Read of the wrapped connection into a slice of n bytes.  With bytes
\* in its buffer the bufio.Reader copies from them; with none it reads the
\* socket, into the slice if that is as large as its buffer, else into
\* its buffer, from which it copies.
WrappedRead(h, n) ==
    /\ copy[h].cs = "running"
    /\ useWrapped[h]
    /\ ~closed[h].s
    /\ Readable(h)
    /\ IF ReadsBufferFirst(h)
       THEN LET k == Min(n, Buffered(h)) IN
              /\ upRecv' = [upRecv EXCEPT ![h] =
                               AppendBytes(@, bufR[h], bufR[h] + k)]
              /\ bufR' = [bufR EXCEPT ![h] = @ + k]
              /\ UNCHANGED <<bufW, sockPos>>
       ELSE IF n >= BufSize
       THEN LET k == Min(n, Avail(h)) IN
              /\ upRecv' = [upRecv EXCEPT ![h] =
                               AppendBytes(@, sockPos[h], sockPos[h] + k)]
              /\ sockPos' = [sockPos EXCEPT ![h] = @ + k]
              /\ UNCHANGED <<bufR, bufW>>
       ELSE LET m == Min(Avail(h), BufSize)
                k == Min(n, m) IN
              /\ upRecv' = [upRecv EXCEPT ![h] =
                               AppendBytes(@, sockPos[h], sockPos[h] + k)]
              /\ bufR' = [bufR EXCEPT ![h] = sockPos[h] + k]
              /\ bufW' = [bufW EXCEPT ![h] = sockPos[h] + m]
              /\ sockPos' = [sockPos EXCEPT ![h] = @ + m]
    /\ UNCHANGED <<hvars, sockvars, pumpvars, helloNames, segs, cLeft, cSent,
                   regvars, sw, srvvars, histvars>>

\* One passthrough connection whose wrapped stream is read to its end.
InitPeek ==
    /\ InitCommon
    /\ tlsTermination = FALSE
    /\ helloNames = ClientNames
    /\ segs = ChunkSizes
    /\ cLeft = [h \in Handlers |-> MaxClientBytes]

NextPeek ==
    \/ AcceptTLS(1)
    \/ \E n \in ChunkSizes : ClientSend(1, n)
    \/ TLSPeekFill(1)
    \/ TLSPeekDone(1)
    \/ TLSPeekFail(1)
    \/ TLSDial(1)
    \/ AddNextID(1)
    \/ AddStore(1)
    \/ AddMetrics(1)
    \/ TLSStartPump(1)
    \/ \E n \in ReadSizes : WrappedRead(1, n)
    \/ \E d \in {"cs", "sc"} : CopyEOF(1, d)
    \/ Wait(1)
    \/ RmLoad(1)
    \/ RmDelete(1)
    \/ RmMetrics(1)
    \/ TLSDeferServer(1)
    \/ TLSDeferClient(1)

SpecPeek == InitPeek /\ [][NextPeek]_vars

\* what was read from handler h's wrapped connection is the stream from
\* byte 0 up to some byte, each byte once and in order
ReadIsPrefix(h) ==
    \/ upRecv[h] = << >>
    \/ /\ Len(upRecv[h]) = 1
       /\ upRecv[h][1][1] = 0
       /\ upRecv[h][1][2] <= cSent[h]

\* the reader has met the end of the stream
ReadToEnd(h) == copy[h].cs = "done" /\ useWrapped[h]

\* C20: what is read from the wrapped connection is, byte for byte and in
\* order, what the client socket delivered; read to the end of the stream it
\* is all of it, whatever the sizes of the reads.
C20_PeekNonDestructive ==
    \A h \in Handlers :
        /\ useWrapped[h] => ReadIsPrefix(h)
        /\ (ReadToEnd(h) /\ cSent[h] > 0)
               => upRecv[h] = << <<0, cSent[h]>> >>

\* C20's case: the client sent its 2048 bytes in segments, the reader read
\* them to the end, part from the buffer and part from the socket
C20_Witness ==
    \E h \in Handlers :
        /\ ReadToEnd(h)
        /\ cSent[h] = MaxClientBytes
        /\ sockPos[h] = cSent[h]
        /\ bufW[h] < cSent[h]
        /\ upRecv[h] = << <<0, cSent[h]>> >>

(***************************************************************************)
(* The peek with clients that send their ClientHello and then wait.        *)
(***************************************************************************)
\* the length of a ClientHello that does not fill the peek
ShortHello == PeekLen \div 2

\* The TLS front door in either mode.  A client sends a ClientHello of
\* ShortHello bytes, or a longer stream, and never closes its end, so no
\* Read of the proxy returns an error.  Each step of a handler that waits
\* for no peer is taken: the Go scheduler runs every runnable goroutine.
InitWait ==
    /\ InitCommon
    /\ tlsTermination \in BOOLEAN
    /\ helloNames = {EvilTest}
    /\ segs = ChunkSizes
    /\ cLeft \in [Handlers -> {ShortHello, MaxClientBytes}]

NextWait ==
    \/ \E h \in Handlers : AcceptTLS(h)
    \/ \E h \in Handlers, n \in ChunkSizes : ClientSend(h, n)
    \/ \E h \in Handlers : TLSPeekFill(h)
    \/ \E h \in Handlers : TLSPeekDone(h)
    \/ \E h \in Handlers : TLSDial(h)
    \/ \E h \in Handlers : AddNextID(h)
    \/ \E h \in Handlers : AddStore(h)
    \/ \E h \in Handlers : AddMetrics(h)
    \/ \E h \in Handlers : TLSStartPump(h)
    \/ \E h \in Handlers : CopyClientData(h)
    \/ \E h \in Handlers : TLSDeferClient(h)

SpecWait ==
    /\ InitWait
    /\ [][NextWait]_vars
    /\ \A h \in Handlers :
          /\ WF_vars(TLSPeekFill(h))
          /\ WF_vars(TLSPeekDone(h))
          /\ WF_vars(TLSDial(h))
          /\ WF_vars(AddNextID(h))
          /\ WF_vars(AddStore(h))
          /\ WF_vars(AddMetrics(h))
          /\ WF_vars(TLSStartPump(h))
          /\ WF_vars(CopyClientData(h))
          /\ WF_vars(TLSDeferClient(h))

\* handler h's client has sent a whole ClientHello shorter than the peek
\* and waits for the reply
HelloSentAndWaiting(h) ==
    /\ kind[h] = "tls"
    /\ pc[h] = "t_peek"
    /\ cLeft[h] = 0
    /\ cSent[h] > 0
    /\ cSent[h] < PeekLen

\* the peeker has returned to its handler, with a name or with an error
PeekDecided(h) == pc[h] \notin {"idle", "t_peek"}

\* C21: a client that has sent a complete ClientHello shorter than 1024
\* bytes and waits, neither sending nor closing, eventually gets a decision
\* from the peeker.
C21_ShortHelloDecided ==
    \A h \in Handlers : HelloSentAndWaiting(h) ~> PeekDecided(h)

\* handler h's call of Remove has begun and has not returned
RemoveRunning(h) == pc[h] \in {"rm_load", "rm_delete", "rm_metrics"}

\* the sweep takes its Delete step, for an entry of handler h that is there
SweepDeletes(h) ==
    /\ sw.pc = "delete"
    /\ sw'.pc # "delete"
    /\ sw.cur \in DOMAIN conns
    /\ Owner(sw.curPC) = h

\* handler h's Remove holds the entry it loaded; its decrements are to come
RemoveWillApply(h) == pc[h] \in {"rm_delete", "rm_metrics"} /\ rmPC[h] # NoPC

C22_Step ==
    \A h \in Handlers :
        (SweepDeletes(h) /\ RemoveRunning(h)) =>
            /\ metrics' = metrics
            /\ RemoveWillApply(h)'

\* C22: when CloseByFilter deletes an id while a Remove of that id is
\* running, the inverse metric deltas of the id are applied exactly once in
\* total: the sweep applies none, and the Remove, which took the entry,
\* applies them.
C22_RemoveTakesAtomically == [][C22_Step]_vars

(***************************************************************************)
(* CloseByFilter with any of the filter functions.                         *)
(***************************************************************************)
\* The proxy in either TLS mode with callers of CloseByFilter that pass any
\* of the filters; the connections arrive at the HTTP and at the TLS
\* listener in turn, and no peer closes its end.
NextPred ==
    \/ \E h \in Handlers : h % 2 = 1 /\ AcceptHTTP(h)
    \/ \E h \in Handlers : h % 2 = 0 /\ AcceptTLS(h)
    \/ \E h \in Handlers, n \in ChunkSizes : ClientSend(h, n)
    \/ \E h \in Handlers : HTTPFilter(h)
    \/ \E h \in Handlers : HTTPHijack(h)
    \/ \E h \in Handlers : HTTPDial(h)
    \/ \E h \in Handlers : TLSPeekFill(h)
    \/ \E h \in Handlers : TLSPeekDone(h)
    \/ \E h \in Handlers : TLSDial(h)
    \/ \E h \in Handlers : OwnStep(h)
    \/ \E f \in Filters : CloseByFilter(f) /\ UNCHANGED srvvars
    \/ \E k \in DOMAIN conns : SweepVisit(k)
    \/ SweepWriteClient
    \/ SweepWriteServer
    \/ SweepCloseClient
    \/ SweepCloseServer
    \/ SweepDelete
    \/ SweepEnd

SpecPred == InitForced /\ [][NextPred]_vars

\* a step of the CloseByFilter call under way
CloseByFilterStep ==
    /\ sw.pc \notin {"idle", "returned"}
    /\ sw' # sw
    /\ \A h \in Handlers : ~Leaves(h, "rm_delete")

\* entry k is registered and the filter of the call under way rejects it
Spared(k) == k \in DOMAIN conns /\ ~Filter(sw.filter, conns[k].Meta)

C23_Step ==
    CloseByFilterStep =>
        /\ \A k \in DOMAIN conns :
              Spared(k) =>
                  /\ k \in DOMAIN conns'
                  /\ conns'[k] = conns[k]
                  /\ closed'[Owner(conns[k])] = closed[Owner(conns[k])]
                  /\ preamble'[Owner(conns[k])] = preamble[Owner(conns[k])]
        /\ metrics' = metrics

\* C23: no step of CloseByFilter(pred) touches an entry whose metadata does
\* not satisfy pred: the entry stays in the registry as it is, neither of
\* its streams is closed or written to, and no counter changes.
C23_OnlyMatchingTouched == [][C23_Step]_vars

\* C23's case: a CloseByFilter that selects the TLS connections has deleted
\* the TLS connection and has visited the HTTP connection, which is still
\* registered, open and unwritten
C23_Witness ==
    /\ sw.pc = "range"
    /\ sw.filter = "https"
    /\ \E h, g \in Handlers :
          /\ kind[h] = "tls"
          /\ deleters[h] = {"sweep"}
          /\ kind[g] = "http"
          /\ connId[g] \in sw.visited
          /\ connId[g] \in DOMAIN conns
          /\ ~closed[g].c /\ ~closed[g].s
          /\ ~preamble[g].c /\ ~preamble[g].s
          /\ metrics.HTTPConnCount = 1

\* handler h's upstream dial succeeded: it has built its ConnMeta
DialSucceeded(h) == meta[h] # ZeroMeta

\* the pump of handler h never started / ran and ended
PumpNeverRan(h) == copy[h].cs = "idle" /\ copy[h].sc = "idle"
PumpCompleted(h) == copy[h].cs = "done" /\ copy[h].sc = "done"

\* C24: when a front-door handler whose upstream dial succeeded has
\* returned, by whichever path, its client socket and its upstream socket
\* are closed and its id is not in the registry.
C24_ReturnLeavesNothing ==
    \A h \in Handlers :
        (pc[h] = "done" /\ DialSucceeded(h)) =>
            /\ closed[h].c
            /\ closed[h].s
            /\ Registered(h)
            /\ connId[h] \notin DOMAIN conns

\* C24's case: one handler has returned after its pump completed and its
\* own Remove deleted the entry, the other after a concurrent CloseByFilter
\* deleted its entry
C24_Witness ==
    \E h, g \in Handlers :
        /\ pc[h] = "done" /\ DialSucceeded(h)
        /\ PumpCompleted(h)
        /\ deleters[h] = {"handler"}
        /\ ~preamble[h].c /\ ~preamble[h].s
        /\ pc[g] = "done" /\ DialSucceeded(g)
        /\ deleters[g] = {"sweep"}

\* C24's other case: the HTTP handler could not forward the request and
\* has returned through closeConnPair without starting the pump
C24_WitnessForwardFailed ==
    \E h \in Handlers :
        /\ pc[h] = "done" /\ DialSucceeded(h)
        /\ kind[h] = "http"
        /\ PumpNeverRan(h)
        /\ deleters[h] = {"handler"}

=============================================================================
